---- MODULE Spec2Model ----
(***************************************************************************)
(* Presence synchronization engine of iTunes-RPC (src/main.py): the        *)
(* polling loop of RPCHandler, the artwork worker, the tray commands and   *)
(* the pure helpers they call.                                             *)
(*                                                                         *)
(* Text is a string, and formatting, normalisation and key construction    *)
(* are computed character by character. Python's None is the empty tuple   *)
(* None and a present value x is the one-element tuple Some(x).            *)
(***************************************************************************)
EXTENDS Integers, Sequences, FiniteSets, TLC

\* ------------------------------------------------------------------ bounds
MaxTime == 3
MaxCommands == 2
MaxChanges == 1
MaxResolves == 2
MaxButtons == 3

\* ------------------------------------------------------- optional values
None == <<>>
Some(x) == <<x>>
Get(o) == o[1]

Min(a, b) == IF a <= b THEN a ELSE b
Max(a, b) == IF a >= b THEN a ELSE b

\* ------------------------------------------------------------------ text
UpperChars == {"A", "B", "C", "D", "E", "F", "G", "H", "I", "J", "K", "L", "M",
               "N", "O", "P", "Q", "R", "S", "T", "U", "V", "W", "X", "Y", "Z"}
LowerChars == {"a", "b", "c", "d", "e", "f", "g", "h", "i", "j", "k", "l", "m",
               "n", "o", "p", "q", "r", "s", "t", "u", "v", "w", "x", "y", "z"}
DigitChars == {"0", "1", "2", "3", "4", "5", "6", "7", "8", "9"}

\* the character at index i of s, and s from index i on
CharAt(s, i) == SubSeq(s, i, i)
From(s, i) == SubSeq(s, i, Len(s))

\* str.lower() on one character, for the letters the library uses
Lower(c) ==
    CASE c = "X" -> "x"
      [] c = "Y" -> "y"
      [] c = "Z" -> "z"
      [] OTHER -> c

\* str.isalnum() on one character
IsAlnum(c) == c \in ((UpperChars \cup LowerChars) \cup DigitChars)

RECURSIVE clean_chars(_)
clean_chars(s) ==
    IF s = "" THEN ""
    ELSE (IF IsAlnum(Lower(CharAt(s, 1))) THEN Lower(CharAt(s, 1)) ELSE "")
         \o clean_chars(From(s, 2))

\* RPCHandler.clean_string
clean_string(s) == IF s = "" THEN "" ELSE clean_chars(s)

\* Python's `a in b` on strings
IsSubstr(a, b) ==
    \E i \in 0..(Len(b) - Len(a)) : SubSeq(b, i + 1, i + Len(a)) = a

Digit(n) ==
    CASE n = 0 -> "0" [] n = 1 -> "1" [] n = 2 -> "2" [] n = 3 -> "3"
      [] n = 4 -> "4" [] n = 5 -> "5" [] n = 6 -> "6" [] n = 7 -> "7"
      [] n = 8 -> "8" [] OTHER -> "9"

\* str(n) for a natural number
RECURSIVE IntToStr(_)
IntToStr(n) == IF n < 10 THEN Digit(n) ELSE IntToStr(n \div 10) \o Digit(n % 10)

\* s[:n]
Take(s, n) == SubSeq(s, 1, Min(n, Len(s)))

\* --------------------------------------------------------------- constants
FALLBACK_IMAGE == "itunes_logo"

\* DEFAULT_CONFIG
max_retry == 3
RetryBackoffNum == 3
RetryBackoffDen == 2
DefaultThresholdSeconds == 30
FractionNum == 1
FractionDen == 2
TextLimit == 128

\* A template is a sequence of parts: literal text, or a replacement field.
Lit(text) == [field |-> None, text |-> text]
Field(name) == [field |-> Some(name), text |-> ""]

\* presence_format of DEFAULT_CONFIG: "{name}" and "by {artist} (U+2022)
\* {play_text}"; "*" stands for U+2022
details_template == <<Field("name")>>
state_template == <<Lit("by "), Field("artist"), Lit(" * "), Field("play_text")>>

\* a details template a config.json may carry: "{title}" names a field that
\* no track dict has
DetailsChoices == {details_template, <<Field("title")>>}

\* numbers a config.json may carry as play_count_threshold_seconds; it may
\* also carry null
ThresholdChoices == {1, DefaultThresholdSeconds}

\* the fields of DEFAULT_CONFIG that the tray commands or a config.json vary
DEFAULT_CONFIG ==
    [dry_run |-> FALSE,
     hide_metadata |-> FALSE,
     network_artwork |-> TRUE,
     details |-> details_template,
     play_count_threshold_seconds |-> Some(DefaultThresholdSeconds)]

\* load_config(): DEFAULT_CONFIG, overridden by what config.json carries
load_config ==
    [dry_run : BOOLEAN,
     hide_metadata : BOOLEAN,
     network_artwork : BOOLEAN,
     details : DetailsChoices,
     play_count_threshold_seconds : {Some(n) : n \in ThresholdChoices} \cup {None}]

\* --------------------------------------------------------- media library
\* What iTunes can be playing: CurrentTrack's Name, Artist, Album, Duration,
\* and the PlayerPosition it reports for it.
Library ==
    {[name |-> "a", artist |-> "X", album |-> "", duration |-> 4, position |-> 1],
     [name |-> "b", artist |-> "X", album |-> "Y", duration |-> 0, position |-> 0]}

\* get_track_info: unique_id = f"{track.Name}-{track.Artist}-{track.Album}"
unique_id(name, artist, album) == name \o "-" \o artist \o "-" \o album

\* get_track_info's returned dict for library entry t
TrackDict(t) ==
    [id |-> unique_id(t.name, t.artist, t.album),
     name |-> t.name,
     artist |-> t.artist,
     album |-> t.album,
     position |-> t.position,
     duration |-> t.duration]

\* -------------------------------------------------------- artwork resolver
\* urllib.parse.quote on one character (letters, digits and "_.-~/" are safe)
QuoteChar(c) ==
    IF IsAlnum(c) \/ c \in {"_", ".", "-", "~", "/"} THEN c
    ELSE IF c = " " THEN "%20"
    ELSE IF c = "!" THEN "%21"
    ELSE "%3F"

RECURSIVE quote(_)
quote(s) == IF s = "" THEN "" ELSE QuoteChar(CharAt(s, 1)) \o quote(From(s, 2))

\* str.replace(old, new), for a non-empty old
RECURSIVE Replace(_, _, _)
Replace(s, old, new) ==
    LET At(i) == SubSeq(s, i, i + Len(old) - 1) = old
        Starts == {i \in 1..(Len(s) - Len(old) + 1) : At(i)}
        first == CHOOSE i \in Starts : \A j \in Starts : i <= j
    IN  IF Starts = {} THEN s
        ELSE SubSeq(s, 1, first - 1) \o new
             \o Replace(From(s, first + Len(old)), old, new)

\* f"{artist}-{album}-{song_name}"
cache_key(artist, album, song_name) == artist \o "-" \o album \o "-" \o song_name

\* dict[key] = value
DictSet(d, k, v) == [x \in (DOMAIN d) \cup {k} |-> IF x = k THEN v ELSE d[x]]

\* the delay request_json sleeps before each retry, as fractions <<n, d>>
FracLeq(a, b) == a[1] * b[2] <= b[1] * a[2]
FracMax(a, b) == IF FracLeq(a, b) THEN b ELSE a
FracMul(a, b) == <<a[1] * b[1], a[2] * b[2]>>
retry_backoff == <<RetryBackoffNum, RetryBackoffDen>>

\* request_json: tries[k] is the outcome of the k-th GET, None for a timeout,
\* an error status or a malformed body, Some(body) for a parsed body.
RECURSIVE request_json_from(_, _, _, _)
request_json_from(tries, attempt, delay, acc) ==
    IF attempt >= max_retry THEN [data |-> None, calls |-> acc.calls, slept |-> acc.slept]
    ELSE LET slept == IF attempt # 0
                      THEN Append(acc.slept, IF delay[1] # 0 THEN delay ELSE retry_backoff)
                      ELSE acc.slept
             delay2 == IF attempt # 0
                       THEN FracMax(FracMul(delay, retry_backoff), retry_backoff)
                       ELSE delay
         IN  IF tries[attempt + 1] # None
             THEN [data |-> tries[attempt + 1], calls |-> acc.calls + 1, slept |-> slept]
             ELSE request_json_from(tries, attempt + 1, delay2,
                                    [calls |-> acc.calls + 1, slept |-> slept])

request_json(tries) ==
    request_json_from(tries, 0, <<0, 1>>, [calls |-> 0, slept |-> <<>>])

\* a candidate loop that keeps the last acceptable candidate
RECURSIVE first_match_last(_, _)
first_match_last(results, target_artist) ==
    IF results = <<>> THEN None
    ELSE LET api_artist == clean_string(Head(results).artistName)
             later == first_match_last(Tail(results), target_artist)
         IN  IF later # None THEN later
             ELSE IF IsSubstr(target_artist, api_artist) \/ IsSubstr(api_artist, target_artist)
             THEN Some(Replace(Head(results).artworkUrl100, "100x100bb", "600x600bb"))
             ELSE None

\* the candidate loop of search_apple_music
RECURSIVE first_match(_, _)
first_match(results, target_artist) ==
    IF results = <<>> THEN None
    ELSE LET api_artist == clean_string(Head(results).artistName)
         IN  IF IsSubstr(target_artist, api_artist) \/ IsSubstr(api_artist, target_artist)
             THEN Some(Replace(Head(results).artworkUrl100, "100x100bb", "600x600bb"))
             ELSE first_match(Tail(results), target_artist)

\* search_apple_music: [image, calls]; image is None, or Some(url) where url
\* may be the empty string
search_apple_music(cfg, artist, tries) ==
    IF ~cfg.network_artwork THEN [image |-> None, calls |-> 0]
    ELSE LET got == request_json(tries)
         IN  IF got.data = None \/ Get(got.data).resultCount = 0
             THEN [image |-> None, calls |-> got.calls]
             ELSE [image |-> first_match(Get(got.data).results, clean_string(artist)),
                   calls |-> got.calls]

\* Python truthiness of search_apple_music's result
Truthy(image) == image # None /\ Get(image) # ""

\* RPCHandler.fetch_artwork_url: tries1 and tries2 are what the search service
\* answers to the track-level and to the album-level search. calls counts the
\* GETs made; saved tells whether _save_artwork_cache was called.
fetch_artwork_url(cache, cfg, artist, album, song_name, tries1, tries2) ==
    LET key == cache_key(artist, album, song_name)
        first == search_apple_music(cfg, artist, tries1)
        second == search_apple_music(cfg, artist, tries2)
    IN  IF artist = "" \/ song_name = ""
        THEN [image |-> FALLBACK_IMAGE, cache |-> cache, calls |-> 0, saved |-> FALSE]
        ELSE IF key \in DOMAIN cache
        THEN [image |-> cache[key], cache |-> cache, calls |-> 0, saved |-> FALSE]
        ELSE IF Truthy(first.image)
        THEN [image |-> Get(first.image),
              cache |-> DictSet(cache, key, Get(first.image)),
              calls |-> first.calls, saved |-> TRUE]
        ELSE IF album # "" /\ Truthy(second.image)
        THEN [image |-> Get(second.image),
              cache |-> DictSet(cache, key, Get(second.image)),
              calls |-> first.calls + second.calls, saved |-> TRUE]
        ELSE [image |-> FALLBACK_IMAGE, cache |-> cache,
              calls |-> first.calls + (IF album # "" THEN second.calls ELSE 0),
              saved |-> FALSE]

\* ---------------------------------------------------------- search service
\* the two search terms of a resolve
TrackTerm(artist, song_name) == artist \o " " \o song_name
AlbumTerm(artist, album) == artist \o " " \o album

\* The artwork URL the service lists for a search term and an entity type.
ArtworkUrl100(search_term, entity_type) ==
    "https://a/" \o entity_type \o "/" \o quote(search_term) \o "/100x100bb.jpg"

\* Bodies the service may answer to the search for search_term among the
\* entities of entity_type.
Bodies(search_term, entity_type) ==
    LET hit == [artistName |-> "X",
                artworkUrl100 |-> ArtworkUrl100(search_term, entity_type)]
        other == [artistName |-> "Z", artworkUrl100 |-> "https://z/100x100bb.jpg"]
    IN  {[resultCount |-> 0, results |-> <<>>],
         [resultCount |-> 1, results |-> <<other>>],
         [resultCount |-> 2, results |-> <<other, hit>>]}

\* Exchanges: the outcomes of the max_retry tries of one search. Nothing is
\* answered when the service is down or when no request is made (an empty
\* album).
NoAnswer == [k \in 1..max_retry |-> None]

Exchanges(up, search_term, entity_type) ==
    {NoAnswer}
    \cup (IF up /\ search_term # ""
          THEN {[k \in 1..max_retry |-> Some(b)] : b \in Bodies(search_term, entity_type)}
               \cup {[k \in 1..max_retry |-> IF k = 1 THEN None ELSE Some(b)] :
                        b \in Bodies(search_term, entity_type)}
          ELSE {})

TrackExchanges(up, artist, song_name) ==
    Exchanges(up, TrackTerm(artist, song_name), "musicTrack")

AlbumExchanges(up, artist, album) ==
    Exchanges(up, IF album = "" THEN "" ELSE AlbumTerm(artist, album), "album")

\* ------------------------------------------------------ presence formatter
\* buttons of DEFAULT_CONFIG
buttons_enabled == TRUE
buttons ==
    <<[label |-> "Open in Apple Music",
       url_template |-> <<Lit("https://music.apple.com/search?term="), Field("artist"),
                          Lit("%20"), Field("album"), Lit("%20"), Field("name")>>],
      [label |-> "View Artist",
       url_template |-> <<Lit("https://music.apple.com/search?term="),
                          Field("artist")>>]>>

\* str.format(**values): None when a field is missing (KeyError)
RECURSIVE format(_, _)
format(template, values) ==
    IF template = <<>> THEN Some("")
    ELSE LET part == Head(template)
             rest == format(Tail(template), values)
         IN  IF part.field = None
             THEN (IF rest = None THEN None ELSE Some(part.text \o Get(rest)))
             ELSE IF Get(part.field) \notin DOMAIN values \/ rest = None THEN None
             ELSE Some(values[Get(part.field)] \o Get(rest))

\* urllib.parse.quote_plus on one character
QuotePlusChar(c) ==
    IF IsAlnum(c) \/ c \in {"_", ".", "-", "~"} THEN c
    ELSE IF c = " " THEN "+"
    ELSE IF c = "/" THEN "%2F"
    ELSE "%3F"

RECURSIVE quote_plus(_)
quote_plus(s) ==
    IF s = "" THEN "" ELSE QuotePlusChar(CharAt(s, 1)) \o quote_plus(From(s, 2))

\* str(val) of the values of a track dict
TrackStrings(track) ==
    [id |-> track.id, name |-> track.name, artist |-> track.artist,
     album |-> track.album, position |-> IntToStr(track.position),
     duration |-> IntToStr(track.duration)]

RECURSIVE build_button_list(_, _)
build_button_list(templates, safe_values) ==
    IF templates = <<>> THEN <<>>
    ELSE LET url == format(Head(templates).url_template, safe_values)
         IN  (IF url # None /\ Get(url) # ""
              THEN <<[label |-> Head(templates).label, url |-> Get(url)]>>
              ELSE <<>>)
             \o build_button_list(Tail(templates), safe_values)

\* a _build_buttons that walks every configured template
_build_buttons_uncut(enabled, templates, track) ==
    LET strs == TrackStrings(track)
        safe_values == [k \in DOMAIN strs |-> quote_plus(strs[k])]
        made == build_button_list(templates, safe_values)
    IN  IF ~enabled \/ made = <<>> THEN None ELSE Some(made)

\* RPCHandler._build_buttons under config["buttons_enabled"] = enabled and
\* config["buttons"] = templates
_build_buttons_of(enabled, templates, track) ==
    LET strs == TrackStrings(track)
        safe_values == [k \in DOMAIN strs |-> quote_plus(strs[k])]
        made == build_button_list(SubSeq(templates, 1, Min(2, Len(templates))),
                                  safe_values)
    IN  IF ~enabled \/ made = <<>> THEN None ELSE Some(made)

\* RPCHandler._build_buttons under DEFAULT_CONFIG's buttons
_build_buttons(track) == _build_buttons_of(buttons_enabled, buttons, track)

\* RPCHandler._apply_privacy, for a present track
_apply_privacy(cfg, track) ==
    IF ~cfg.hide_metadata THEN track
    ELSE [id |-> track.id,
          name |-> "Listening in iTunes",
          artist |-> "Private",
          album |-> "Private",
          position |-> track.position,
          duration |-> track.duration]

\* dict.get(key, 0)
DictGet0(d, k) == IF k \in DOMAIN d THEN d[k] ELSE 0

\* f"{play_count} play{'s' if play_count != 1 else ''} this session"
play_text(play_count) ==
    IntToStr(play_count) \o " play" \o (IF play_count # 1 THEN "s" ELSE "")
    \o " this session"

\* a "large_image" that shows the resolved artwork whatever the privacy setting
large_image_unredacted(privacy_on, cached) == cached

\* "large_image" of the payload
large_image(privacy_on, cached) == IF privacy_on THEN FALLBACK_IMAGE ELSE cached

\* the payload _update_presence builds from safe_track under the details
\* template of the configuration; privacy_on is its own read of hide_metadata.
\* None when a details/state template raises.
format_payload(details, privacy_on, track, safe_track, counts, cached, time) ==
    LET play_count == DictGet0(counts, track.id)
        values == [k \in (DOMAIN TrackStrings(safe_track)) \cup {"play_text"} |->
                      IF k = "play_text" THEN play_text(play_count)
                      ELSE TrackStrings(safe_track)[k]]
        fmt_details == IF privacy_on THEN Some("Listening to music")
                       ELSE format(details, values)
        fmt_state == IF privacy_on THEN Some(None) ELSE
                     LET s == format(state_template, values)
                     IN  IF s = None THEN None ELSE Some(s)
        position == safe_track.position
        duration == safe_track.duration
        time_remaining == Max(duration - position, 0)
    IN  IF fmt_details = None \/ fmt_state = None THEN None
        ELSE Some([details |-> Some(Take(Get(fmt_details), TextLimit)),
                   state |-> IF Get(fmt_state) = None \/ Get(Get(fmt_state)) = "" THEN None
                             ELSE Some(Take(Get(Get(fmt_state)), TextLimit)),
                   large_image |-> Some(large_image(privacy_on, cached)),
                   large_text |-> IF privacy_on THEN None ELSE Some(safe_track.album),
                   start |-> IF duration # 0 THEN Some(time - position) ELSE None,
                   end |-> IF duration # 0 THEN Some(time + time_remaining) ELSE None,
                   buttons |-> IF privacy_on THEN None ELSE _build_buttons(safe_track)])

\* the payload under the details template of DEFAULT_CONFIG
build_payload(privacy_on, track, safe_track, counts, cached, time) ==
    format_payload(details_template, privacy_on, track, safe_track, counts, cached, time)

\* a play-count test that wants the threshold exceeded, not just reached
should_count_exceeded(cfg, counted, started_at, time, duration) ==
    /\ ~counted
    /\ started_at # None
    /\ Get(started_at) # 0
    /\ (time - Get(started_at)) * FractionDen
          > Min(Get(cfg.play_count_threshold_seconds) * FractionDen, duration * FractionNum)

\* the play-count test of the loop: threshold = min(seconds, duration * fraction)
should_count(cfg, counted, started_at, time, duration) ==
    /\ ~counted
    /\ started_at # None
    /\ Get(started_at) # 0
    /\ (time - Get(started_at)) * FractionDen
          >= Min(Get(cfg.play_count_threshold_seconds) * FractionDen, duration * FractionNum)

\* ------------------------------------------------------------------- state
VARIABLES
    now,                 \* time.time(), in seconds
    player,              \* what iTunes is playing: None or Some(library entry)
    connected,           \* whether the Discord pipe of self.rpc is open
    service_up,          \* whether the search service answers at all
    disk_ok,             \* whether writing config.json and the cache file succeeds
    presence,            \* the remote presence: None (cleared) or Some(payload)
    config,              \* self.config
    config_file,         \* CONFIG_PATH
    rpc_enabled,         \* self.rpc_enabled
    running,             \* self.running
    last_track_id,       \* self.last_track_id
    cached_artwork_url,  \* self.cached_artwork_url
    current_track_info,  \* self.current_track_info
    play_counts,         \* self.play_counts
    track_started_at,    \* self.track_started_at
    track_counted,       \* self.track_counted
    artwork_cache,       \* self.artwork_cache
    cache_file,          \* ARTWORK_CACHE_PATH
    artwork_queue,       \* self.artwork_queue
    loop_pc,             \* position of the rpc thread in RPCHandler.loop
    loop,                \* its locals: track, safe_track, privacy_on, payload
    worker_pc,           \* position of the artwork thread in _artwork_worker
    worker,              \* its locals: track, image
    cmd_pc,              \* position of the tray thread inside a menu callback
    cmd_arg,             \* the argument refresh_artwork passes to _enqueue_artwork
    commands,            \* how many tray commands the user has issued
    changes,             \* how many times the player has changed what it plays
    session_incs,        \* history: increments of the playing id's count since the
                         \* player began to report it without interruption
    resolves,            \* history: the resolves made by Resolve
    applied              \* the last application of a helper to drawn inputs

env_vars == <<now, player, connected, service_up, disk_ok>>
cfg_vars == <<config, config_file, rpc_enabled, running>>
tracker_vars == <<last_track_id, play_counts, track_started_at, track_counted>>
art_vars == <<cached_artwork_url, artwork_cache, cache_file, artwork_queue>>
loop_vars == <<loop_pc, loop>>
worker_vars == <<worker_pc, worker>>
cmd_vars == <<cmd_pc, cmd_arg>>
hist_vars == <<commands, changes, session_incs, resolves, applied>>

vars == <<now, player, connected, service_up, disk_ok, presence, config, config_file,
          rpc_enabled, running, last_track_id, cached_artwork_url, current_track_info,
          play_counts, track_started_at, track_counted, artwork_cache, cache_file,
          artwork_queue, loop_pc, loop, worker_pc, worker, cmd_pc, cmd_arg,
          commands, changes, session_incs, resolves, applied>>

NoLocals == [track |-> None, safe_track |-> None, privacy_on |-> FALSE, payload |-> None]
EmptyDict == [k \in {} |-> 0]

\* RPCHandler.__init__, then run_background_rpc's connect()
Init ==
    /\ now = 1
    /\ player \in {None} \cup {Some(t) : t \in Library}
    /\ config \in load_config
    /\ connected \in (IF config.dry_run THEN {FALSE} ELSE BOOLEAN)
    /\ service_up \in BOOLEAN
    /\ disk_ok \in BOOLEAN
    /\ presence = None
    /\ config_file = config
    /\ rpc_enabled = TRUE
    /\ running = TRUE
    /\ last_track_id = None
    /\ cached_artwork_url = FALLBACK_IMAGE
    /\ current_track_info = None
    /\ play_counts = EmptyDict
    /\ track_started_at = None
    /\ track_counted = FALSE
    /\ artwork_cache = EmptyDict
    /\ cache_file = EmptyDict
    /\ artwork_queue = <<>>
    /\ loop_pc = "top"
    /\ loop = NoLocals
    /\ worker_pc = "get"
    /\ worker = [track |-> None, image |-> FALLBACK_IMAGE]
    /\ cmd_pc = "idle"
    /\ cmd_arg = None
    /\ commands = 0
    /\ changes = 0
    /\ session_incs = 0
    /\ resolves = <<>>
    /\ applied = None

\* ------------------------------------------------------------- environment
Tick ==
    /\ now < MaxTime
    /\ now' = now + 1
    /\ UNCHANGED <<player, connected, service_up, disk_ok, presence, cfg_vars,
                   tracker_vars, art_vars, current_track_info, loop_vars, worker_vars,
                   cmd_vars, hist_vars>>

\* iTunes starts another track, stops playing, or becomes unreachable
PlayerChange ==
    /\ changes < MaxChanges
    /\ changes' = changes + 1
    /\ \E p \in ({None} \cup {Some(t) : t \in Library}) \ {player} : player' = p
    /\ session_incs' = 0
    /\ UNCHANGED <<now, connected, service_up, disk_ok, presence, cfg_vars, tracker_vars,
                   art_vars, current_track_info, loop_vars, worker_vars, cmd_vars,
                   commands, resolves, applied>>

\* Discord goes away: the pipe breaks and the presence with it
Disconnect ==
    /\ connected
    /\ connected' = FALSE
    /\ presence' = None
    /\ UNCHANGED <<now, player, service_up, disk_ok, cfg_vars, tracker_vars, art_vars,
                   current_track_info, loop_vars, worker_vars, cmd_vars, hist_vars>>

\* the search service goes down or comes back
ServiceChange ==
    /\ service_up' = ~service_up
    /\ UNCHANGED <<now, player, connected, disk_ok, presence, cfg_vars, tracker_vars,
                   art_vars, current_track_info, loop_vars, worker_vars, cmd_vars,
                   hist_vars>>

\* the files become unwritable or writable again
DiskChange ==
    /\ disk_ok' = ~disk_ok
    /\ UNCHANGED <<now, player, connected, service_up, presence, cfg_vars, tracker_vars,
                   art_vars, current_track_info, loop_vars, worker_vars, cmd_vars,
                   hist_vars>>

\* RPCHandler._clear_presence: the presence it leaves
_clear_presence(cfg, conn, shown) ==
    IF cfg.dry_run THEN shown
    ELSE IF conn THEN None
    ELSE shown

\* RPCHandler._enqueue_artwork, its drain loop and its put
drain(q) == <<>>
put(q, item) == Append(q, item)

\* -------------------------------------------------------- RPCHandler.loop
\* while self.running / if not self.rpc_enabled: sleep(idle_interval); continue
LoopTop ==
    /\ loop_pc = "top"
    /\ loop_pc' = IF ~running THEN "exit"
                  ELSE IF ~rpc_enabled THEN "top"
                  ELSE "poll"
    /\ UNCHANGED <<env_vars, presence, cfg_vars, tracker_vars, art_vars,
                   current_track_info, loop, worker_vars, cmd_vars, hist_vars>>

\* RPCHandler.get_track_info: the playing track, or None when nothing plays
\* or the COM call raises (player = None stands for both)
get_track_info(playing) ==
    IF playing = None THEN None ELSE Some(TrackDict(Get(playing)))

LoopPoll ==
    /\ loop_pc = "poll"
    /\ LET track == get_track_info(player)
       IN  /\ loop' = [loop EXCEPT !.track = track]
           /\ current_track_info' = track
           /\ loop_pc' = IF track # None THEN "check" ELSE "clear"
    /\ UNCHANGED <<env_vars, presence, cfg_vars, tracker_vars, art_vars,
                   worker_vars, cmd_vars, hist_vars>>

\* if track["id"] != self.last_track_id
track_changed(track, last) == Some(track.id) # last

LoopCheck ==
    /\ loop_pc = "check"
    /\ loop_pc' = IF track_changed(Get(loop.track), last_track_id) THEN "reset" ELSE "count"
    /\ UNCHANGED <<env_vars, presence, cfg_vars, tracker_vars, art_vars,
                   current_track_info, loop, worker_vars, cmd_vars, hist_vars>>

\* self.cached_artwork_url = FALLBACK_IMAGE
LoopReset ==
    /\ loop_pc = "reset"
    /\ cached_artwork_url' = FALLBACK_IMAGE
    /\ loop_pc' = "drain"
    /\ UNCHANGED <<env_vars, presence, cfg_vars, tracker_vars, artwork_cache, cache_file,
                   artwork_queue, current_track_info, loop, worker_vars, cmd_vars,
                   hist_vars>>

\* self._enqueue_artwork(track): the drain loop
LoopDrain ==
    /\ loop_pc = "drain"
    /\ artwork_queue' = drain(artwork_queue)
    /\ loop_pc' = "put"
    /\ UNCHANGED <<env_vars, presence, cfg_vars, tracker_vars, cached_artwork_url,
                   artwork_cache, cache_file, current_track_info, loop, worker_vars,
                   cmd_vars, hist_vars>>

\* self._enqueue_artwork(track): the put
LoopPut ==
    /\ loop_pc = "put"
    /\ artwork_queue' = put(artwork_queue, loop.track)
    /\ loop_pc' = "mark"
    /\ UNCHANGED <<env_vars, presence, cfg_vars, tracker_vars, cached_artwork_url,
                   artwork_cache, cache_file, current_track_info, loop, worker_vars,
                   cmd_vars, hist_vars>>

\* self.last_track_id = track["id"]; self.track_started_at = time.time();
\* self.track_counted = False
LoopMark ==
    /\ loop_pc = "mark"
    /\ last_track_id' = Some(Get(loop.track).id)
    /\ track_started_at' = Some(now)
    /\ track_counted' = FALSE
    /\ loop_pc' = "count"
    /\ UNCHANGED <<env_vars, presence, cfg_vars, play_counts, art_vars,
                   current_track_info, loop, worker_vars, cmd_vars, hist_vars>>

\* min(threshold seconds, ...) raises TypeError when the configuration carries
\* null for play_count_threshold_seconds
count_raises(cfg, counted, started_at) ==
    /\ ~counted
    /\ started_at # None
    /\ Get(started_at) # 0
    /\ cfg.play_count_threshold_seconds = None

\* if not self.track_counted and self.track_started_at: ... A TypeError ends
\* the iteration in the loop's except clause.
LoopCount ==
    /\ loop_pc = "count"
    /\ IF count_raises(config, track_counted, track_started_at)
       THEN /\ loop_pc' = "top"
            /\ loop' = NoLocals
            /\ UNCHANGED <<play_counts, track_counted, session_incs>>
       ELSE LET track == Get(loop.track)
                hit == should_count(config, track_counted, track_started_at, now,
                                    track.duration)
            IN  /\ play_counts' = IF hit
                                  THEN DictSet(play_counts, track.id,
                                               DictGet0(play_counts, track.id) + 1)
                                  ELSE play_counts
                /\ track_counted' = (track_counted \/ hit)
                /\ session_incs' = IF hit /\ player # None
                                      /\ unique_id(Get(player).name, Get(player).artist,
                                                   Get(player).album) = track.id
                                   THEN session_incs + 1 ELSE session_incs
                /\ loop_pc' = "privacy"
                /\ loop' = loop
    /\ UNCHANGED <<env_vars, presence, cfg_vars, last_track_id, track_started_at,
                   art_vars, current_track_info, worker_vars, cmd_vars,
                   commands, changes, resolves, applied>>

\* _update_presence: safe_track = self._apply_privacy(track)
LoopApplyPrivacy ==
    /\ loop_pc = "privacy"
    /\ loop' = [loop EXCEPT !.safe_track = Some(_apply_privacy(config, Get(loop.track)))]
    /\ loop_pc' = "build"
    /\ UNCHANGED <<env_vars, presence, cfg_vars, tracker_vars, art_vars,
                   current_track_info, worker_vars, cmd_vars, hist_vars>>

\* the second read of hide_metadata in _update_presence
read_privacy_on(cfg, safe_track) == cfg.hide_metadata

\* a loop whose formatting fault is caught by nothing: the thread ends
LoopBuild_uncaught ==
    /\ loop_pc = "build"
    /\ LET privacy_on == read_privacy_on(config, Get(loop.safe_track))
           payload == format_payload(config.details, privacy_on, Get(loop.track),
                                     Get(loop.safe_track), play_counts,
                                     cached_artwork_url, now)
       IN  IF payload = None
           THEN /\ loop' = NoLocals
                /\ loop_pc' = "exit"
           ELSE /\ loop' = [loop EXCEPT !.privacy_on = privacy_on, !.payload = payload]
                /\ loop_pc' = "push"
    /\ UNCHANGED <<env_vars, presence, cfg_vars, tracker_vars, art_vars,
                   current_track_info, worker_vars, cmd_vars, hist_vars>>

\* _update_presence: privacy_on, the formatting and the payload. A template
\* that raises ends the iteration in the loop's except clause.
LoopBuild ==
    /\ loop_pc = "build"
    /\ LET privacy_on == read_privacy_on(config, Get(loop.safe_track))
           payload == format_payload(config.details, privacy_on, Get(loop.track),
                                     Get(loop.safe_track), play_counts,
                                     cached_artwork_url, now)
       IN  IF payload = None
           THEN /\ loop' = NoLocals
                /\ loop_pc' = "top"
           ELSE /\ loop' = [loop EXCEPT !.privacy_on = privacy_on, !.payload = payload]
                /\ loop_pc' = "push"
    /\ UNCHANGED <<env_vars, presence, cfg_vars, tracker_vars, art_vars,
                   current_track_info, worker_vars, cmd_vars, hist_vars>>

\* a push that waits until the worker is idle
LoopPush_waits ==
    /\ loop_pc = "push"
    /\ worker_pc = "get"
    /\ IF config.dry_run
       THEN /\ presence' = presence
            /\ loop_pc' = "top"
            /\ loop' = NoLocals
       ELSE IF connected
       THEN /\ presence' = loop.payload
            /\ loop_pc' = "top"
            /\ loop' = NoLocals
       ELSE /\ presence' = presence
            /\ loop_pc' = "reconnect"
            /\ loop' = loop
    /\ UNCHANGED <<env_vars, cfg_vars, tracker_vars, art_vars, current_track_info,
                   worker_vars, cmd_vars, hist_vars>>

\* _update_presence: the dry-run log or self.rpc.update(...)
LoopPush ==
    /\ loop_pc = "push"
    /\ IF config.dry_run
       THEN /\ presence' = presence
            /\ loop_pc' = "top"
            /\ loop' = NoLocals
       ELSE IF connected
       THEN /\ presence' = loop.payload
            /\ loop_pc' = "top"
            /\ loop' = NoLocals
       ELSE /\ presence' = presence
            /\ loop_pc' = "reconnect"
            /\ loop' = loop
    /\ UNCHANGED <<env_vars, cfg_vars, tracker_vars, art_vars, current_track_info,
                   worker_vars, cmd_vars, hist_vars>>

\* an ensure_connected whose failure is not caught: the loop thread ends
LoopReconnect_raises ==
    /\ loop_pc = "reconnect"
    /\ IF config.dry_run THEN connected' = connected ELSE connected' \in BOOLEAN
    /\ loop_pc' = IF connected' THEN "top" ELSE "exit"
    /\ loop' = NoLocals
    /\ UNCHANGED <<now, player, service_up, disk_ok, presence, cfg_vars, tracker_vars,
                   art_vars, current_track_info, worker_vars, cmd_vars, hist_vars>>

\* ensure_connected(), after a failed update
LoopReconnect ==
    /\ loop_pc = "reconnect"
    /\ IF config.dry_run THEN connected' = connected ELSE connected' \in BOOLEAN
    /\ loop_pc' = "top"
    /\ loop' = NoLocals
    /\ UNCHANGED <<now, player, service_up, disk_ok, presence, cfg_vars, tracker_vars,
                   art_vars, current_track_info, worker_vars, cmd_vars, hist_vars>>

\* no track: self._clear_presence()
LoopClear ==
    /\ loop_pc = "clear"
    /\ presence' = _clear_presence(config, connected, presence)
    /\ loop_pc' = "forget"
    /\ UNCHANGED <<env_vars, cfg_vars, tracker_vars, art_vars, current_track_info,
                   loop, worker_vars, cmd_vars, hist_vars>>

\* a no-track branch that keeps the id of the last track
LoopForget_keeps_id ==
    /\ loop_pc = "forget"
    /\ last_track_id' = last_track_id
    /\ track_started_at' = None
    /\ track_counted' = FALSE
    /\ loop_pc' = "top"
    /\ loop' = NoLocals
    /\ UNCHANGED <<env_vars, presence, cfg_vars, play_counts, art_vars,
                   current_track_info, worker_vars, cmd_vars, hist_vars>>

\* no track: last_track_id, track_started_at = None; track_counted = False
LoopForget ==
    /\ loop_pc = "forget"
    /\ last_track_id' = None
    /\ track_started_at' = None
    /\ track_counted' = FALSE
    /\ loop_pc' = "top"
    /\ loop' = NoLocals
    /\ UNCHANGED <<env_vars, presence, cfg_vars, play_counts, art_vars,
                   current_track_info, worker_vars, cmd_vars, hist_vars>>

\* ------------------------------------------------- RPCHandler._artwork_worker
\* track = self.artwork_queue.get(); if track is None: break
WorkerGet ==
    /\ worker_pc = "get"
    /\ artwork_queue # <<>>
    /\ artwork_queue' = Tail(artwork_queue)
    /\ worker' = [worker EXCEPT !.track = Head(artwork_queue)]
    /\ worker_pc' = IF Head(artwork_queue) = None THEN "dead" ELSE "fetch"
    /\ UNCHANGED <<env_vars, presence, cfg_vars, tracker_vars, cached_artwork_url,
                   artwork_cache, cache_file, current_track_info, loop_vars,
                   cmd_vars, hist_vars>>

\* _save_artwork_cache: the file after a write that succeeds or raises
saved_files(ok, file, cache) == IF ok THEN cache ELSE file

\* self.fetch_artwork_url(track["artist"], track["album"], track["name"])
WorkerFetch ==
    /\ worker_pc = "fetch"
    /\ LET track == Get(worker.track)
       IN  \E tries1 \in TrackExchanges(service_up, track.artist, track.name),
              tries2 \in AlbumExchanges(service_up, track.artist, track.album) :
             LET r == fetch_artwork_url(artwork_cache, config, track.artist,
                                        track.album, track.name, tries1, tries2)
             IN  /\ artwork_cache' = r.cache
                 /\ cache_file' = (IF r.saved THEN saved_files(disk_ok, cache_file, r.cache)
                                   ELSE cache_file)
                 /\ worker' = [worker EXCEPT !.image = r.image]
    /\ worker_pc' = "assign"
    /\ UNCHANGED <<env_vars, presence, cfg_vars, tracker_vars, cached_artwork_url,
                   artwork_queue, current_track_info, loop_vars, cmd_vars, hist_vars>>

\* self.cached_artwork_url = <the fetched image>; task_done()
WorkerAssign ==
    /\ worker_pc = "assign"
    /\ cached_artwork_url' = worker.image
    /\ worker_pc' = "get"
    /\ worker' = [track |-> None, image |-> FALLBACK_IMAGE]
    /\ UNCHANGED <<env_vars, presence, cfg_vars, tracker_vars, artwork_cache,
                   cache_file, artwork_queue, current_track_info, loop_vars,
                   cmd_vars, hist_vars>>

\* ------------------------------------------------------------ tray commands
\* CONFIG_PATH.write_text(json.dumps(self.config)): written, or the write raises
written_configs(ok, file, cfg) == IF ok THEN cfg ELSE file

\* toggle_rpc: self.rpc_enabled = not self.rpc_enabled
ToggleRpc ==
    /\ cmd_pc = "idle"
    /\ commands < MaxCommands
    /\ commands' = commands + 1
    /\ rpc_enabled' = ~rpc_enabled
    /\ cmd_pc' = IF rpc_enabled THEN "rpc_clear" ELSE "idle"
    /\ UNCHANGED <<env_vars, presence, config, config_file, running, tracker_vars,
                   art_vars, current_track_info, loop_vars, worker_vars, cmd_arg,
                   changes,
                   session_incs, resolves, applied>>

\* toggle_rpc: self._clear_presence()
ToggleRpcClear ==
    /\ cmd_pc = "rpc_clear"
    /\ presence' = _clear_presence(config, connected, presence)
    /\ cmd_pc' = "rpc_forget"
    /\ UNCHANGED <<env_vars, cfg_vars, tracker_vars, art_vars, current_track_info,
                   loop_vars, worker_vars, cmd_arg, hist_vars>>

\* toggle_rpc: self.last_track_id = None
ToggleRpcForget ==
    /\ cmd_pc = "rpc_forget"
    /\ last_track_id' = None
    /\ cmd_pc' = "idle"
    /\ UNCHANGED <<env_vars, presence, cfg_vars, play_counts, track_started_at,
                   track_counted, art_vars, current_track_info, loop_vars,
                   worker_vars, cmd_arg, hist_vars>>

toggle_privacy(cfg) == [cfg EXCEPT !.hide_metadata = ~cfg.hide_metadata]
toggle_network_artwork(cfg) == [cfg EXCEPT !.network_artwork = ~cfg.network_artwork]
toggle_dry_run(cfg) == [cfg EXCEPT !.dry_run = ~cfg.dry_run]

Toggle(flipped) ==
    /\ cmd_pc = "idle"
    /\ commands < MaxCommands
    /\ commands' = commands + 1
    /\ config' = flipped
    /\ config_file' = written_configs(disk_ok, config_file, flipped)
    /\ UNCHANGED <<env_vars, presence, rpc_enabled, running, tracker_vars, art_vars,
                   current_track_info, loop_vars, worker_vars, cmd_vars, changes,
                   session_incs, resolves, applied>>

TogglePrivacy == Toggle(toggle_privacy(config))
ToggleNetworkArtwork == Toggle(toggle_network_artwork(config))
ToggleDryRun == Toggle(toggle_dry_run(config))

\* refresh_artwork: if self.current_track_info
RefreshArtwork ==
    /\ cmd_pc = "idle"
    /\ commands < MaxCommands
    /\ commands' = commands + 1
    /\ cmd_pc' = IF current_track_info # None THEN "refresh_arg" ELSE "idle"
    /\ UNCHANGED <<env_vars, presence, cfg_vars, tracker_vars, art_vars,
                   current_track_info, loop_vars, worker_vars, cmd_arg, changes,
                   session_incs, resolves, applied>>

\* refresh_artwork: the argument self.current_track_info of _enqueue_artwork
RefreshArg ==
    /\ cmd_pc = "refresh_arg"
    /\ cmd_arg' = current_track_info
    /\ cmd_pc' = "refresh_drain"
    /\ UNCHANGED <<env_vars, presence, cfg_vars, tracker_vars, art_vars,
                   current_track_info, loop_vars, worker_vars, hist_vars>>

RefreshDrain ==
    /\ cmd_pc = "refresh_drain"
    /\ artwork_queue' = drain(artwork_queue)
    /\ cmd_pc' = "refresh_put"
    /\ UNCHANGED <<env_vars, presence, cfg_vars, tracker_vars, cached_artwork_url,
                   artwork_cache, cache_file, current_track_info, loop_vars,
                   worker_vars, cmd_arg, hist_vars>>

RefreshPut ==
    /\ cmd_pc = "refresh_put"
    /\ artwork_queue' = put(artwork_queue, cmd_arg)
    /\ cmd_pc' = "idle"
    /\ cmd_arg' = None
    /\ UNCHANGED <<env_vars, presence, cfg_vars, tracker_vars, cached_artwork_url,
                   artwork_cache, cache_file, current_track_info, loop_vars,
                   worker_vars, hist_vars>>

\* force_reconnect -> connect()
ForceReconnect ==
    /\ cmd_pc = "idle"
    /\ commands < MaxCommands
    /\ commands' = commands + 1
    /\ IF config.dry_run THEN connected' = connected ELSE connected' \in BOOLEAN
    /\ UNCHANGED <<now, player, service_up, disk_ok, presence, cfg_vars, tracker_vars,
                   art_vars, current_track_info, loop_vars, worker_vars, cmd_vars,
                   changes,
                   session_incs, resolves, applied>>

\* quit_action
Quit ==
    /\ cmd_pc = "idle"
    /\ commands < MaxCommands
    /\ commands' = commands + 1
    /\ running
    /\ running' = FALSE
    /\ UNCHANGED <<env_vars, presence, config, config_file, rpc_enabled, tracker_vars,
                   art_vars, current_track_info, loop_vars, worker_vars, cmd_vars,
                   changes,
                   session_incs, resolves, applied>>

\* ------------------------------------------------------------ specification
Next ==
    \/ Tick
    \/ PlayerChange
    \/ Disconnect
    \/ ServiceChange
    \/ DiskChange
    \/ LoopTop
    \/ LoopPoll
    \/ LoopCheck
    \/ LoopReset
    \/ LoopDrain
    \/ LoopPut
    \/ LoopMark
    \/ LoopCount
    \/ LoopApplyPrivacy
    \/ LoopBuild
    \/ LoopPush
    \/ LoopReconnect
    \/ LoopClear
    \/ LoopForget
    \/ WorkerGet
    \/ WorkerFetch
    \/ WorkerAssign
    \/ ToggleRpc
    \/ ToggleRpcClear
    \/ ToggleRpcForget
    \/ TogglePrivacy
    \/ ToggleNetworkArtwork
    \/ ToggleDryRun
    \/ RefreshArtwork
    \/ RefreshArg
    \/ RefreshDrain
    \/ RefreshPut
    \/ ForceReconnect
    \/ Quit

Spec == Init /\ [][Next]_vars

\* ---------------------------------------------------------------- scenarios
\* The loop and the worker, without the reconnect that only a broken pipe
\* reaches.
LoopConnected ==
    \/ LoopTop
    \/ LoopPoll
    \/ LoopCheck
    \/ LoopReset
    \/ LoopDrain
    \/ LoopPut
    \/ LoopMark
    \/ LoopCount
    \/ LoopApplyPrivacy
    \/ LoopBuild
    \/ LoopPush
    \/ LoopClear
    \/ LoopForget

Worker ==
    \/ WorkerGet
    \/ WorkerFetch
    \/ WorkerAssign

\* Tracker scenario: Discord stays connected, the search service is down, the
\* clock runs, the player changes and the user toggles the engine on and off.
InitTracker ==
    /\ Init
    /\ disk_ok
    /\ ~config.dry_run
    /\ ~config.hide_metadata
    /\ config.network_artwork
    /\ config.details = details_template
    /\ config.play_count_threshold_seconds # None
    /\ connected
    /\ ~service_up

NextTracker ==
    \/ Tick
    \/ PlayerChange
    \/ LoopConnected
    \/ Worker
    \/ ToggleRpc
    \/ ToggleRpcClear
    \/ ToggleRpcForget

SpecTracker == InitTracker /\ [][NextTracker]_vars

\* Artwork scenario: Discord stays connected, the search service answers,
\* the player changes and the user asks for artwork refreshes.
InitArtwork ==
    /\ Init
    /\ disk_ok
    /\ ~config.dry_run
    /\ ~config.hide_metadata
    /\ config.network_artwork
    /\ config.details = details_template
    /\ config.play_count_threshold_seconds = Some(DefaultThresholdSeconds)
    /\ connected
    /\ service_up

NextArtwork ==
    \/ PlayerChange
    \/ LoopConnected
    \/ Worker
    \/ RefreshArtwork
    \/ RefreshArg
    \/ RefreshDrain
    \/ RefreshPut

SpecArtwork == InitArtwork /\ [][NextArtwork]_vars

\* Privacy scenario: Discord stays connected, the search service answers, the
\* clock runs, the player keeps what it plays and the user toggles
\* hide_metadata.
InitPrivacy ==
    /\ Init
    /\ disk_ok
    /\ ~config.dry_run
    /\ config.network_artwork
    /\ config.details = details_template
    /\ config.play_count_threshold_seconds = Some(DefaultThresholdSeconds)
    /\ connected
    /\ service_up

NextPrivacy ==
    \/ Tick
    \/ LoopConnected
    \/ Worker
    \/ TogglePrivacy

SpecPrivacy == InitPrivacy /\ [][NextPrivacy]_vars

\* Fault scenario: config.json may carry a details template with an unknown
\* field or null for the play-count threshold, Discord comes and goes, the
\* clock runs, the player changes and the user may quit.
InitFaults ==
    /\ Init
    /\ disk_ok
    /\ ~config.dry_run
    /\ ~config.hide_metadata
    /\ config.network_artwork
    /\ ~service_up

NextFaults ==
    \/ Tick
    \/ PlayerChange
    \/ Disconnect
    \/ LoopConnected
    \/ LoopReconnect
    \/ Worker
    \/ Quit

SpecFaults == InitFaults /\ [][NextFaults]_vars

\* Button scenario: _build_buttons applied to the tracks of the library under
\* the button lists a config.json may carry: the two of DEFAULT_CONFIG, one
\* whose template names a field no track has, one whose URL is the album alone.
ButtonTemplates ==
    {buttons[1], buttons[2],
     [label |-> "Lyrics", url_template |-> <<Lit("https://l/"), Field("lyrics")>>],
     [label |-> "Album", url_template |-> <<Field("album")>>]}

ButtonLists ==
    UNION {[1..n -> ButtonTemplates] : n \in 0..MaxButtons}

BuildButtons ==
    /\ applied = None
    /\ \E enabled \in BOOLEAN, templates \in ButtonLists, t \in Library :
        /\ applied' = Some([call |-> "_build_buttons",
                            enabled |-> enabled,
                            templates |-> templates,
                            track |-> TrackDict(t),
                            result |-> _build_buttons_of(enabled, templates,
                                                         TrackDict(t))])
        /\ UNCHANGED <<env_vars, presence, cfg_vars, tracker_vars, art_vars,
                       current_track_info, loop_vars, worker_vars, cmd_vars,
                       commands, changes, session_incs, resolves>>

InitButtons ==
    /\ Init
    /\ player = None
    /\ config = DEFAULT_CONFIG
    /\ connected
    /\ ~service_up
    /\ disk_ok

NextButtons == BuildButtons

SpecButtons == InitButtons /\ [][NextButtons]_vars

\* Request scenario: request_json applied to the outcomes the max_retry GETs
\* of one search may have: a failure, or one of the bodies the service answers
\* to the searches of the library's tracks.
TryOutcomes ==
    {None}
    \cup UNION {{Some(b) : b \in Bodies(TrackTerm(t.artist, t.name), "musicTrack")
                              \cup Bodies(AlbumTerm(t.artist, t.album), "album")} :
                 t \in Library}

RequestJson ==
    /\ applied = None
    /\ \E tries \in [1..max_retry -> TryOutcomes] :
        /\ applied' = Some([call |-> "request_json",
                            tries |-> tries,
                            result |-> request_json(tries)])
        /\ UNCHANGED <<env_vars, presence, cfg_vars, tracker_vars, art_vars,
                       current_track_info, loop_vars, worker_vars, cmd_vars,
                       commands, changes, session_incs, resolves>>

InitRequest ==
    /\ Init
    /\ player = None
    /\ config = DEFAULT_CONFIG
    /\ connected
    /\ service_up
    /\ disk_ok

NextRequest == RequestJson

SpecRequest == InitRequest /\ [][NextRequest]_vars

\* Toggle scenario: the tray's four toggles, on a disk whose writes succeed
\* or fail from one moment to the next; nothing plays.
InitToggles ==
    /\ Init
    /\ player = None
    /\ ~service_up
    /\ config.details = details_template
    /\ config.play_count_threshold_seconds = Some(DefaultThresholdSeconds)

NextToggles ==
    \/ DiskChange
    \/ ToggleRpc
    \/ ToggleRpcClear
    \/ ToggleRpcForget
    \/ TogglePrivacy
    \/ ToggleNetworkArtwork
    \/ ToggleDryRun

SpecToggles == InitToggles /\ [][NextToggles]_vars

\* Search scenario: fetch_artwork_url on an empty cache, for the tracks of the
\* library, under the answers of the search service: no answer, no result,
\* candidates of another artist, candidates of the artist with and without an
\* artworkUrl100, and two acceptable candidates in either order.
SearchBodies(search_term, entity_type) ==
    LET hit == [artistName |-> "X",
                artworkUrl100 |-> ArtworkUrl100(search_term, entity_type)]
        hit2 == [artistName |-> "X Y", artworkUrl100 |-> "https://y/100x100bb.jpg"]
        bare == [artistName |-> "X", artworkUrl100 |-> ""]
        other == [artistName |-> "Z", artworkUrl100 |-> "https://z/100x100bb.jpg"]
    IN  {[resultCount |-> 0, results |-> <<>>],
         [resultCount |-> 1, results |-> <<other>>],
         [resultCount |-> 2, results |-> <<other, hit>>],
         [resultCount |-> 1, results |-> <<bare>>],
         [resultCount |-> 2, results |-> <<bare, hit>>],
         [resultCount |-> 2, results |-> <<hit, hit2>>],
         [resultCount |-> 2, results |-> <<hit2, hit>>]}

SearchExchanges(search_term, entity_type) ==
    {NoAnswer}
    \cup {[k \in 1..max_retry |-> Some(b)] : b \in SearchBodies(search_term, entity_type)}

FetchArtwork ==
    /\ applied = None
    /\ \E track \in Library :
      \E tries1 \in SearchExchanges(TrackTerm(track.artist, track.name), "musicTrack"),
         tries2 \in SearchExchanges(AlbumTerm(track.artist, track.album), "album") :
        /\ applied' = Some([call |-> "fetch_artwork_url",
                            track |-> track,
                            tries1 |-> tries1,
                            tries2 |-> tries2,
                            result |-> fetch_artwork_url(EmptyDict, config, track.artist,
                                                         track.album, track.name,
                                                         tries1, tries2)])
        /\ UNCHANGED <<env_vars, presence, cfg_vars, tracker_vars, art_vars,
                       current_track_info, loop_vars, worker_vars, cmd_vars,
                       commands, changes, session_incs, resolves>>

InitSearch ==
    /\ Init
    /\ player = None
    /\ disk_ok
    /\ service_up
    /\ connected
    /\ ~config.dry_run
    /\ ~config.hide_metadata
    /\ config.details = details_template
    /\ config.play_count_threshold_seconds = Some(DefaultThresholdSeconds)

NextSearch == FetchArtwork

SpecSearch == InitSearch /\ [][NextSearch]_vars

\* Cache scenario: the three threads at work while the player stays as it is,
\* on a track or on none: the loop, the artwork worker with the search service
\* up, and the tray's refresh command.
InitCache == InitArtwork

NextCache ==
    \/ LoopConnected
    \/ Worker
    \/ RefreshArtwork
    \/ RefreshArg
    \/ RefreshDrain
    \/ RefreshPut

SpecCache == InitCache /\ [][NextCache]_vars

\* Resolver scenario: fetch_artwork_url called MaxResolves times in a row, as
\* the worker calls it, on any triple and with any answers of the service.
ResolveInputs ==
    {[artist |-> t.artist, album |-> t.album, name |-> t.name] : t \in Library}
    \cup {[artist |-> "", album |-> "Y", name |-> "b"]}

Resolve ==
    /\ Len(resolves) < MaxResolves
    /\ \E track \in ResolveInputs :
         \E tries1 \in TrackExchanges(service_up, track.artist, track.name),
            tries2 \in AlbumExchanges(service_up, track.artist, track.album) :
           LET r == fetch_artwork_url(artwork_cache, config, track.artist,
                                      track.album, track.name, tries1, tries2)
           IN  /\ artwork_cache' = r.cache
               /\ cache_file' = (IF r.saved THEN saved_files(disk_ok, cache_file, r.cache)
                                 ELSE cache_file)
               /\ resolves' = Append(resolves,
                                     [track |-> track,
                                      key |-> cache_key(track.artist, track.album,
                                                        track.name),
                                      cached_before |->
                                          cache_key(track.artist, track.album, track.name)
                                              \in DOMAIN artwork_cache,
                                      image |-> r.image,
                                      calls |-> r.calls])
    /\ UNCHANGED <<env_vars, presence, cfg_vars, tracker_vars, cached_artwork_url,
                   artwork_queue, current_track_info, loop_vars, worker_vars,
                   cmd_vars, commands, changes, session_incs, applied>>

InitResolve ==
    /\ Init
    /\ disk_ok
    /\ ~config.dry_run
    /\ ~config.hide_metadata
    /\ config.details = details_template
    /\ config.play_count_threshold_seconds = Some(DefaultThresholdSeconds)
    /\ connected
    /\ player = None

NextResolve == Resolve

SpecResolve == InitResolve /\ [][NextResolve]_vars

\* ------------------------------------------------------------------- claims
\* C1: while the media player keeps reporting the same track id, the play
\* count of that id increases by at most one, however many polls occur and
\* whatever commands the user issues.
C1_AtMostOncePerSession == session_incs <= 1

\* C2: the step of an iteration that does the play-count accounting increments
\* the polled id's count and sets the counted flag if and only if the track is
\* not yet counted and now - track_started_at >= min(threshold seconds,
\* duration * fraction); when already counted it changes neither.
C2_CountIffThreshold ==
    [][(loop_pc = "count" /\ loop_pc' # "count") =>
        LET track == Get(loop.track)
            reached == /\ track_started_at # None
                       /\ (now - Get(track_started_at)) * FractionDen
                            >= Min(Get(config.play_count_threshold_seconds) * FractionDen,
                                   track.duration * FractionNum)
        IN  IF ~track_counted /\ reached
            THEN /\ DictGet0(play_counts', track.id) = DictGet0(play_counts, track.id) + 1
                 /\ \A k \in DOMAIN play_counts :
                        k # track.id => play_counts'[k] = play_counts[k]
                 /\ track_counted'
            ELSE /\ play_counts' = play_counts
                 /\ track_counted' = track_counted]_vars

\* C2 witness: a duration-0 track was counted by the iteration that detected
\* it (elapsed 0), after another track was counted on reaching its threshold.
C2_Witness ==
    /\ loop_pc = "privacy"
    /\ track_counted
    /\ Get(loop.track).duration = 0
    /\ track_started_at = Some(now)
    /\ \E t \in Library :
        /\ t.duration > 0
        /\ DictGet0(play_counts, TrackDict(t).id) = 1
    /\ DictGet0(play_counts, Get(loop.track).id) = 1

\* the images a resolve of track can return from the search service
ResolvedImages(track) ==
    {Replace(ArtworkUrl100(TrackTerm(track.artist, track.name), "musicTrack"),
             "100x100bb", "600x600bb")}
    \cup (IF track.album = "" THEN {}
          ELSE {Replace(ArtworkUrl100(AlbumTerm(track.artist, track.album), "album"),
                        "100x100bb", "600x600bb")})

Last(q) == q[Len(q)]

\* C3: when the worker finishes the resolution of a track A while a request
\* for a different track B, submitted in the meantime, waits in the queue, the
\* displayed artwork does not become A's image: it is the fallback sentinel or
\* an image of B.
C3_NoStaleArtwork ==
    [][(/\ worker_pc = "assign"
        /\ worker_pc' = "get"
        /\ artwork_queue # <<>>
        /\ Last(artwork_queue) # None
        /\ Get(Last(artwork_queue)).id # Get(worker.track).id)
       => cached_artwork_url' \in
            {FALLBACK_IMAGE} \cup ResolvedImages(Get(Last(artwork_queue)))]_vars

\* Nothing is left to do for the artwork: the loop is between two iterations,
\* no command is running, and the worker waits on an empty queue or has ended.
ArtworkQuiescent ==
    /\ loop_pc = "top"
    /\ cmd_pc = "idle"
    /\ \/ worker_pc = "get" /\ artwork_queue = <<>>
       \/ worker_pc = "dead"

\* C4: once track B is the current track, the displayed artwork settles on a
\* resolution of B. Stated on the states in which nothing is left to run, where
\* the value can no longer change unless the track does: there it is the
\* fallback sentinel or an image of B.
C4_SettlesOnCurrentTrack ==
    (/\ ArtworkQuiescent
     /\ current_track_info # None
     /\ last_track_id = Some(Get(current_track_info).id))
    => cached_artwork_url \in
         {FALLBACK_IMAGE} \cup ResolvedImages(Get(current_track_info))

\* C5: a resolve that misses the cache and finds no acceptable match returns
\* the fallback sentinel and leaves it cached under "{artist}-{album}-{title}".
C5_FallbackCached ==
    \A i \in DOMAIN resolves :
        (/\ ~resolves[i].cached_before
         /\ resolves[i].track.artist # ""
         /\ resolves[i].track.name # ""
         /\ resolves[i].image = FALLBACK_IMAGE)
        => /\ resolves[i].key \in DOMAIN artwork_cache
           /\ artwork_cache[resolves[i].key] = FALLBACK_IMAGE

\* C6: of two resolves of the same triple, starting from an empty cache, the
\* second makes no network call and returns what the first returned.
C6_SecondResolveCached ==
    \A i, j \in DOMAIN resolves :
        (i < j /\ resolves[i].key = resolves[j].key)
        => /\ resolves[j].calls = 0
           /\ resolves[j].image = resolves[i].image

\* the payload of a fully redacted update: nothing of it depends on the
\* track's name, artist or album, nor on the resolved artwork
RedactedPayload(position, duration, time) ==
    [details |-> Some("Listening to music"),
     state |-> None,
     large_image |-> Some(FALLBACK_IMAGE),
     large_text |-> None,
     start |-> IF duration # 0 THEN Some(time - position) ELSE None,
     end |-> IF duration # 0 THEN Some(time + Max(duration - position, 0)) ELSE None,
     buttons |-> None]

\* both reads of hide_metadata in the update in progress returned true
HiddenThroughout ==
    /\ loop.privacy_on
    /\ Get(loop.safe_track) # Get(loop.track)

\* C7: a payload built while hide_metadata was true for the whole update is
\* the fixed redacted payload; only its timestamps come from the track.
C7_RedactedPayload ==
    (loop_pc = "push" /\ HiddenThroughout)
    => \E time \in 1..MaxTime :
         Get(loop.payload) = RedactedPayload(Get(loop.track).position,
                                             Get(loop.track).duration, time)

\* C7 witness: a redacted payload is about to be pushed for a track with a
\* duration while a resolved artwork is at hand.
C7_Witness ==
    /\ loop_pc = "push"
    /\ HiddenThroughout
    /\ cached_artwork_url # FALLBACK_IMAGE
    /\ Get(loop.track).duration # 0

AllImages ==
    {FALLBACK_IMAGE} \cup UNION {ResolvedImages(TrackDict(t)) : t \in Library}

\* C8: every payload handed to the push was built under a single value of
\* hide_metadata: it is the fully redacted or the fully unredacted payload of
\* the polled track.
C8_SinglePrivacyValue ==
    loop_pc = "push"
    => \E hide \in BOOLEAN, image \in AllImages, time \in 1..MaxTime :
         loop.payload =
            build_payload(hide, Get(loop.track),
                          _apply_privacy([config EXCEPT !.hide_metadata = hide],
                                         Get(loop.track)),
                          play_counts, image, time)

\* a details/state template of the configuration raises in the update at hand
FormatFails ==
    /\ loop_pc = "build"
    /\ format_payload(config.details, read_privacy_on(config, Get(loop.safe_track)),
                      Get(loop.track), Get(loop.safe_track), play_counts,
                      cached_artwork_url, now) = None

\* the play-count computation of the iteration at hand raises
CountFails ==
    /\ loop_pc = "count"
    /\ count_raises(config, track_counted, track_started_at)

\* the presence push of the iteration at hand raises
PushFails == loop_pc = "push" /\ ~config.dry_run /\ ~connected

TemplateFields(template) ==
    {Get(template[i].field) : i \in {j \in DOMAIN template : template[j].field # None}}

\* a template every field of which the track has, and whose URL is not empty
Usable(button, track) ==
    /\ TemplateFields(button.url_template) \subseteq DOMAIN track
    /\ \E i \in DOMAIN button.url_template :
         LET part == button.url_template[i]
         IN  IF part.field = None THEN part.text # ""
             ELSE TrackStrings(track)[Get(part.field)] # ""

\* C12: with buttons enabled _build_buttons never returns an empty list; what it
\* returns has one button for each usable template among the first two
\* configured, in their order and under their labels, so a template naming a
\* field the track lacks is left out and the other kept; with no usable
\* template among the first two the result is None.
C12_Buttons ==
    (applied # None /\ Get(applied).call = "_build_buttons" /\ Get(applied).enabled) =>
        LET templates == Get(applied).templates
            track == Get(applied).track
            result == Get(applied).result
            firstTwo == 1..Min(2, Len(templates))
            kept == {i \in firstTwo : Usable(templates[i], track)}
        IN  /\ result # Some(<<>>)
            /\ (kept = {}) <=> (result = None)
            /\ result # None =>
                  /\ Len(Get(result)) = Cardinality(kept)
                  /\ Len(Get(result)) <= 2
                  /\ \A i \in kept :
                        Get(result)[Cardinality({j \in kept : j <= i})].label
                            = templates[i].label

\* C12 witness: three templates are configured, the first names a field the
\* track lacks, the second and the third are usable; only the second's
\* button is returned.
C12_Witness ==
    /\ applied # None
    /\ Get(applied).call = "_build_buttons"
    /\ Get(applied).enabled
    /\ Len(Get(applied).templates) = 3
    /\ ~Usable(Get(applied).templates[1], Get(applied).track)
    /\ "lyrics" \in TemplateFields(Get(applied).templates[1].url_template)
    /\ Usable(Get(applied).templates[2], Get(applied).track)
    /\ Usable(Get(applied).templates[3], Get(applied).track)
    /\ Get(applied).result # None
    /\ Len(Get(Get(applied).result)) = 1

\* C13: in every reachable state the artwork mailbox holds at most one
\* pending request.
C13_MailboxAtMostOne == Len(artwork_queue) <= 1

\* retry_backoff to the power k
RECURSIVE BackoffPower(_)
BackoffPower(k) == IF k = 0 THEN <<1, 1>> ELSE FracMul(BackoffPower(k - 1), retry_backoff)

FracEq(a, b) == a[1] * b[2] = b[1] * a[2]

\* the tries of a search up to and including the first that succeeds
TriesNeeded(tries) ==
    IF \E k \in DOMAIN tries : tries[k] # None
    THEN CHOOSE k \in DOMAIN tries :
             tries[k] # None /\ \A j \in 1..(k - 1) : tries[j] = None
    ELSE Len(tries)

\* C14: request_json makes at most max_retry tries and none after the first
\* success, sleeps retry_backoff^k before retry k, and returns None when every
\* try fails.
C14_RetrySchedule ==
    (applied # None /\ Get(applied).call = "request_json") =>
        LET tries == Get(applied).tries
            result == Get(applied).result
        IN  /\ result.calls <= max_retry
            /\ result.calls = TriesNeeded(tries)
            /\ Len(result.slept) = result.calls - 1
            /\ \A k \in DOMAIN result.slept :
                  FracEq(result.slept[k], BackoffPower(k))
            /\ (\A k \in DOMAIN tries : tries[k] = None) => result.data = None

\* C15: a push that fails changes neither the presence nor the engine's
\* flags and tracker and is followed by the reconnect; the reconnect is tried
\* once and, connected or not, hands over to the next iteration with the
\* flags and the tracker as they were; and an iteration that has built a
\* payload can always push it.
C15_PushFailureContained ==
    [][/\ (PushFails /\ loop_pc' # loop_pc) =>
             /\ loop_pc' = "reconnect"
             /\ UNCHANGED <<presence, running, rpc_enabled, tracker_vars>>
       /\ (loop_pc = "reconnect" /\ (loop_pc' # loop_pc \/ loop' # loop)) =>
             /\ loop_pc' = "top"
             /\ loop' = NoLocals
             /\ UNCHANGED <<presence, running, rpc_enabled, tracker_vars>>
       /\ (loop_pc = "push" => ENABLED LoopPush)]_vars

\* C15 witness: with Discord away the push of an iteration later than the
\* track's first (the track is counted already) has failed, nothing is shown,
\* and the reconnect is due.
C15_Witness ==
    /\ loop_pc = "reconnect"
    /\ ~connected
    /\ presence = None
    /\ track_counted
    /\ loop.payload # None

\* C16: while network_artwork is false every resolve makes no network call,
\* and a resolve of an uncached triple returns the fallback and leaves the
\* cache holding that outcome under the triple's key.
C16_OfflineResolve ==
    ~config.network_artwork =>
        \A i \in DOMAIN resolves :
            /\ resolves[i].calls = 0
            /\ (/\ ~resolves[i].cached_before
                /\ resolves[i].track.artist # ""
                /\ resolves[i].track.name # "")
               => /\ resolves[i].image = FALLBACK_IMAGE
                  /\ resolves[i].key \in DOMAIN artwork_cache
                  /\ artwork_cache[resolves[i].key] = resolves[i].image

\* C17: an iteration whose poll finds no track goes on to the clear, which
\* removes the presence when Discord is reachable and pushes nothing, and then
\* resets last_track_id and track_started_at to None and track_counted to
\* false; none of these steps changes a play count; and a poll that returns a
\* track while last_track_id is None takes the track-change branch.
C17_NoTrackResetsTracker ==
    [][/\ (loop_pc = "poll" /\ player = None /\ loop_pc' # loop_pc) =>
             /\ loop_pc' = "clear"
             /\ UNCHANGED <<presence, play_counts>>
       /\ (loop_pc = "clear" /\ loop_pc' # loop_pc) =>
             /\ loop_pc' = "forget"
             /\ presence' = (IF connected THEN None ELSE presence)
             /\ UNCHANGED play_counts
       /\ (loop_pc = "forget" /\ loop_pc' # loop_pc) =>
             /\ loop_pc' = "top"
             /\ last_track_id' = None
             /\ track_started_at' = None
             /\ track_counted' = FALSE
             /\ UNCHANGED <<presence, play_counts>>
       /\ (loop_pc = "check" /\ last_track_id = None /\ loop_pc' # loop_pc) =>
             loop_pc' = "reset"]_vars

\* C17 witness: a track was shown and counted, the player stopped, the poll
\* found no track, the clear removed the presence and the reset is due.
C17_Witness ==
    /\ loop_pc = "forget"
    /\ player = None
    /\ connected
    /\ presence = None
    /\ last_track_id # None
    /\ track_counted
    /\ play_counts # EmptyDict

\* C18: whenever no toggle is in progress the configuration in memory and the
\* configuration file hold the same flags, and a toggle of a configuration
\* flag changes that flag alone.
C18_TogglesPersisted ==
    /\ cmd_pc = "idle" =>
          /\ config_file.hide_metadata = config.hide_metadata
          /\ config_file.network_artwork = config.network_artwork
          /\ config_file.dry_run = config.dry_run
    /\ config.details = details_template
    /\ config.play_count_threshold_seconds = Some(DefaultThresholdSeconds)

\* the body a search receives, None when every try fails
Answer(tries) ==
    IF \A k \in DOMAIN tries : tries[k] = None THEN None
    ELSE tries[TriesNeeded(tries)]

\* the candidates of an answer whose normalised artist is part of the
\* normalised artist asked for, or contains it
Acceptable(answer, artist) ==
    IF answer = None \/ Get(answer).resultCount = 0 THEN {}
    ELSE {i \in DOMAIN Get(answer).results :
             LET api_artist == clean_string(Get(answer).results[i].artistName)
             IN  \/ IsSubstr(clean_string(artist), api_artist)
                 \/ IsSubstr(api_artist, clean_string(artist))}

\* the first acceptable candidate of an answer, in service order
FirstAcceptable(answer, artist) ==
    LET ok == Acceptable(answer, artist)
    IN  Get(answer).results[CHOOSE i \in ok : \A j \in ok : i <= j]

\* an answer whose first acceptable candidate carries an artwork URL
HasArtwork(answer, artist) ==
    /\ Acceptable(answer, artist) # {}
    /\ FirstAcceptable(answer, artist).artworkUrl100 # ""

\* the artwork of a candidate at the size asked of the service
Artwork600(candidate) == Replace(candidate.artworkUrl100, "100x100bb", "600x600bb")

\* a resolve of a track with an artist and a name, on an empty cache, with
\* the network allowed
SearchDone ==
    /\ applied # None
    /\ Get(applied).call = "fetch_artwork_url"
    /\ config.network_artwork

C20_CacheConfinedToWorker ==
    [][/\ (artwork_cache' # artwork_cache \/ cache_file' # cache_file) =>
             /\ worker_pc = "fetch"
             /\ worker_pc' = "assign"
             /\ UNCHANGED <<loop_vars, cmd_vars>>
       /\ (loop_pc = "push" => ENABLED LoopPush)
       /\ (loop_pc = "build" /\ loop_pc' = "push") =>
             Get(loop'.payload).large_image
                 = Some(IF loop'.privacy_on THEN FALLBACK_IMAGE ELSE cached_artwork_url)]_vars

\* C20 witness: the loop is at its push while the worker is inside a resolve
\* over a cache that already holds an entry, and a refresh command is midway.
C20_Witness ==
    /\ loop_pc = "push"
    /\ worker_pc = "fetch"
    /\ cmd_pc = "refresh_put"
    /\ artwork_cache # EmptyDict

\* C9: after toggle_rpc has disabled the engine and cleared the presence, no
\* presence update is pushed until the engine is enabled again, and an
\* iteration that starts while disabled neither polls nor touches the presence.
C9_NoPushWhileDisabled ==
    [][/\ (~rpc_enabled /\ cmd_pc \in {"rpc_forget", "idle"})
            => ~(loop_pc = "push" /\ loop_pc' # "push" /\ ~config.dry_run /\ connected)
       /\ (~rpc_enabled /\ loop_pc = "top")
            => (loop_pc' \in {"top", "exit"} /\ presence' = presence)]_vars

\* C10: from the moment a disable completes and for as long as the engine
\* stays disabled, the 'last track' memory is None; no iteration in progress
\* writes the old id back.
C10_LastTrackForgotten ==
    (~rpc_enabled /\ cmd_pc = "idle") => last_track_id = None

====
